---- MODULE Spec2Model ----
(***************************************************************************)
(* Model of scripts/sync_google_ads.py: the Google Ads -> Supabase ETL.    *)
(*                                                                         *)
(* Two families of specifications share this module:                       *)
(*   Spec        one invocation of sync(): run-log insert, the entity loop,*)
(*               run-log update, process exit;                             *)
(*   SpecResync  sync() invoked again against the same API responses;      *)
(*   SpecFn      the pure helpers (_dedupe, _upsert's batching, the        *)
(*               transformers) applied to inputs drawn from bounded sets.  *)
(*                                                                         *)
(* Conventions.  A value that may be None is <<>> for None and <<v>> for   *)
(* the value v; where the other values are strings, None is "None".  A     *)
(* Python float is an exact rational [n, d] in lowest terms.  str(int) is  *)
(* ToString.  A proto-plus enum value is its name (what _ename returns).   *)
(* Output-record fields that are verbatim copies of a row field and take   *)
(* no part in id, date or a derived metric (ctr, cpc, impression shares,   *)
(* headlines, quality ratings) are not carried.                            *)
(***************************************************************************)
EXTENDS Integers, Sequences, FiniteSets, TLC

VARIABLES
    pc,             \* position inside sync(): start, loop, finalise, exit, done, crashed
    idx,            \* 1-based position of the for-loop in ENTITIES
    sync_id,        \* sync(): <<identifier>> of the inserted sync_log row, or None
    total_records,  \* sync(): running total
    errors,         \* sync(): list of error strings
    exit_code,      \* <<exit status>> once the process has ended, else None
    sync_log,       \* store: the sync_log table, a sequence of rows
    tables,         \* store: entity name -> set of stored rows
    calls,          \* history: store and API calls issued by the current run, in order
    api,            \* environment: which set of API responses the provider serves
    faults,         \* environment: number of calls that may still raise
    run,            \* the current invocation of sync(): "first" or "second"
    synced,         \* history: entities fully upserted by an earlier invocation
    items,          \* ENTITIES.items(): the names in the order the for loop visits them
    fn,             \* SpecFn: name of the helper last applied, or "idle"
    arg,            \* SpecFn: its argument
    ret,            \* SpecFn: its return value
    sent            \* SpecFn: the store calls it issued, in order

vars == <<pc, idx, sync_id, total_records, errors, exit_code, sync_log, tables,
          calls, api, faults, run, synced, items, fn, arg, ret, sent>>

syncVars == <<pc, idx, sync_id, total_records, errors, exit_code, sync_log, tables,
              calls, api, faults, run, synced, items>>

fnVars == <<fn, arg, ret, sent>>

NoneVal == "None"

None == <<>>

Some(v) == <<v>>

-----------------------------------------------------------------------------
(* Bounds of the model                                                     *)

MaxFaults == 2      \* calls that may raise in one behaviour of Spec
BulkFaults == 1     \* the same, in a behaviour whose responses are the bulk ones
ResyncFaults == 1   \* calls that may raise in one behaviour of SpecResync
MaxLen == 3         \* longest record list enumerated exhaustively
TermLen == 3        \* longest search-term batch enumerated exhaustively
MaxFrags == 2       \* fragments concatenated into one campaign name
OrderFaults == 1    \* calls that may raise in one behaviour of SpecOrder
GeoBatches == 2     \* the largest identifier list has GeoBatches * GEO_CHUNK_SIZE + 50 entries
OrderRotations == 1 \* rotations of the catalog tried as processing orders
BulkBatches == 1    \* the bulk response holds BulkBatches * BATCH_SIZE + 1 rows
FnBatches == 2      \* SpecFn: record lists of up to FnBatches * BATCH_SIZE + 1 records

-----------------------------------------------------------------------------
(* Configuration                                                           *)

BATCH_SIZE == 500

-----------------------------------------------------------------------------
(* Generic sequence helpers                                                *)

Range(s) == {s[i] : i \in 1..Len(s)}

Min(a, b) == IF a <= b THEN a ELSE b

\* sorted(S) for a set S of indices below n, in Python's 0-based numbering.
Sorted(S, n) ==
    LET InS(x) == x \in S
    IN  SelectSeq([i \in 1..n |-> i - 1], InS)

\* The concatenation of a list of lists.
RECURSIVE FlatConcat(_)
FlatConcat(ss) == IF ss = <<>> THEN <<>> ELSE Head(ss) \o FlatConcat(Tail(ss))

RECURSIVE SumLens(_)
SumLens(ss) == IF ss = <<>> THEN 0 ELSE Len(Head(ss)) + SumLens(Tail(ss))

\* sep.join(parts) for a list of strings
RECURSIVE Join(_, _)
Join(sep, parts) ==
    IF parts = <<>> THEN ""
    ELSE IF Len(parts) = 1 THEN parts[1]
    ELSE parts[1] \o sep \o Join(sep, Tail(parts))

-----------------------------------------------------------------------------
(* Floats as exact rationals                                               *)

RECURSIVE Gcd(_, _)
Gcd(a, b) == IF b = 0 THEN a ELSE Gcd(b, a % b)

Rat(n, d) == LET g == Gcd(n, d) IN [n |-> n \div g, d |-> d \div g]

Zero == [n |-> 0, d |-> 1]

Float(i) == [n |-> i, d |-> 1]

RatLe(a, b) == a.n * b.d <= b.n * a.d

RatLt(a, b) == a.n * b.d < b.n * a.d

-----------------------------------------------------------------------------
(* Helpers (lines 84-105)                                                  *)

\* int(val or 0) / 1_000_000
Micros(val) == Rat(val, 1000000)

\* numerator / denominator with no test of the denominator; a quotient by
\* zero is the pair with d = 0.
DivUnguarded(numerator, denominator) ==
    [n |-> numerator.n * denominator.d, d |-> numerator.d * denominator.n]

\* numerator / denominator if denominator else 0.0
Div(numerator, denominator) ==
    IF denominator.n # 0
    THEN Rat(numerator.n * denominator.d, numerator.d * denominator.n)
    ELSE Zero

\* hashlib.sha256(raw.encode()).hexdigest()[:16].  The digest is taken to be
\* collision-free on the inputs of one model run: distinct raw strings give
\* distinct identifiers, equal raw strings give equal identifiers.
Sha256Hex16(raw) == "sha256:" \o raw

MakeIdSalted(parts) == Sha256Hex16(Join("|", parts \o <<run>>))

\* _make_id(*parts); the parts arrive already passed through str().
MakeId(parts) == Sha256Hex16(Join("|", parts))

\* table.get(_ename(val), fallback)
Lookup(table, val, fallback) ==
    IF val \in DOMAIN table THEN table[val] ELSE fallback

Str(i) == ToString(i)

-----------------------------------------------------------------------------
(* Enum look-up tables (lines 175-196)                                     *)

STATUS_MAP == [x \in {"ENABLED", "PAUSED", "REMOVED"} |->
    CASE x = "ENABLED" -> "enabled" [] x = "PAUSED" -> "paused" [] x = "REMOVED" -> "ended"]

MATCH_MAP == [x \in {"EXACT", "PHRASE", "BROAD"} |->
    CASE x = "EXACT" -> "Exact" [] x = "PHRASE" -> "Phrase" [] x = "BROAD" -> "Broad"]

DEVICE_MAP == [x \in {"MOBILE", "DESKTOP", "TABLET", "CONNECTED_TV"} |->
    CASE x = "MOBILE" -> "Mobile" [] x = "DESKTOP" -> "Desktop"
      [] x = "TABLET" -> "Tablet" [] x = "CONNECTED_TV" -> "Connected TV"]

DOW_MAP == [x \in {"MONDAY", "TUESDAY", "WEDNESDAY", "THURSDAY", "FRIDAY",
                   "SATURDAY", "SUNDAY"} |->
    CASE x = "MONDAY" -> "Monday" [] x = "TUESDAY" -> "Tuesday"
      [] x = "WEDNESDAY" -> "Wednesday" [] x = "THURSDAY" -> "Thursday"
      [] x = "FRIDAY" -> "Friday" [] x = "SATURDAY" -> "Saturday"
      [] x = "SUNDAY" -> "Sunday"]

-----------------------------------------------------------------------------
(* Supabase upsert, batched (lines 869-886)                                *)

\* The conflict key of a record: (rec["id"], rec["date"]).
Key(rec) == <<rec.id, rec.date>>

\* A merge in which the earlier assignment to a key wins.
SeenMergeFirst(early, late) ==
    [k \in DOMAIN early \cup DOMAIN late |->
        IF k \in DOMAIN early THEN early[k] ELSE late[k]]

\* The dict after the assignments `early` followed by the assignments `late`:
\* an assignment seen[key] = idx overwrites the entry an earlier one made.
SeenMerge(early, late) ==
    [k \in DOMAIN early \cup DOMAIN late |->
        IF k \in DOMAIN late THEN late[k] ELSE early[k]]

\* The dict `seen` after the iterations idx = lo..hi (0-based) of
\* `for idx, rec in enumerate(records): seen[(rec["id"], rec["date"])] = idx`.
\* The iterations are taken in index order, split in halves so that the
\* evaluation nests to depth log(n) only.
RECURSIVE SeenRange(_, _, _)
SeenRange(records, lo, hi) ==
    IF lo > hi THEN << >>
    ELSE IF lo = hi THEN [k \in {Key(records[lo + 1])} |-> lo]
    ELSE SeenMerge(SeenRange(records, lo, (lo + hi) \div 2),
                   SeenRange(records, (lo + hi) \div 2 + 1, hi))

\* seen.values()
SeenValues(records) ==
    LET seen == SeenRange(records, 0, Len(records) - 1)
    IN  {seen[k] : k \in DOMAIN seen}

\* _dedupe: [records[i] for i in sorted(seen.values())]
Dedupe(records) ==
    LET order == Sorted(SeenValues(records), Len(records))
    IN  [p \in 1..Len(order) |-> records[order[p] + 1]] \o <<>>

\* range(0, n, step) as a list
RangeStep(n, step) == Sorted({i \in 0..(n - 1) : i % step = 0}, n)

\* A slicing that ends each chunk one record early.
UpsertChunksShort(records) ==
    LET recs == Dedupe(records)
        starts == RangeStep(Len(recs), BATCH_SIZE)
    IN  [p \in 1..Len(starts) |->
            SubSeq(recs, starts[p] + 1, Min(starts[p] + BATCH_SIZE - 1, Len(recs)))]

\* The chunks `records[i : i + BATCH_SIZE]` that _upsert hands to the store,
\* in order, for a non-empty record list (after records = _dedupe(records)).
UpsertChunks(records) ==
    LET recs == Dedupe(records)
        starts == RangeStep(Len(recs), BATCH_SIZE)
    IN  [p \in 1..Len(starts) |->
            SubSeq(recs, starts[p] + 1, Min(starts[p] + BATCH_SIZE, Len(recs)))]

\* One store call: supa.table(table).upsert(chunk, on_conflict="id,date").
UpsertCall(table, chunk) == [op |-> "upsert", table |-> table, on_conflict |-> "id,date",
                             chunk |-> chunk]

\* An _upsert that counts the records it was given.
UpsertCountsInput(table, records) ==
    IF records = <<>>
    THEN [sent |-> <<>>, ret |-> 0]
    ELSE LET chunks == UpsertChunks(records)
         IN  [sent |-> [p \in 1..Len(chunks) |-> UpsertCall(table, chunks[p])],
              ret |-> Len(records)]

\* _upsert when no store call raises: the calls issued and the value returned.
\* `if not records: return 0` comes first; total accumulates len(chunk).
Upsert(table, records) ==
    IF records = <<>>
    THEN [sent |-> <<>>, ret |-> 0]
    ELSE LET chunks == UpsertChunks(records)
         IN  [sent |-> [p \in 1..Len(chunks) |-> UpsertCall(table, chunks[p])],
              ret |-> SumLens(chunks)]

-----------------------------------------------------------------------------
(* Search-term classification (lines 104-105, 159-168)                     *)

RatAdd(a, b) == Rat(a.n * b.d + b.n * a.d, a.d * b.d)

RatMul(a, b) == Rat(a.n * b.n, a.d * b.d)

\* The k-th smallest element of a list of rationals (ties by position).
KthSmallest(vals, k) ==
    vals[CHOOSE i \in 1..Len(vals) :
        Cardinality({j \in 1..Len(vals) :
            RatLt(vals[j], vals[i]) \/ (vals[j] = vals[i] /\ j < i)}) = k - 1]

\* _med: statistics.median(vals) if vals else 0.0
Med(vals) ==
    IF vals = <<>> THEN Zero
    ELSE IF Len(vals) % 2 = 1 THEN KthSmallest(vals, (Len(vals) + 1) \div 2)
    ELSE RatMul(RatAdd(KthSmallest(vals, Len(vals) \div 2),
                       KthSmallest(vals, Len(vals) \div 2 + 1)), Rat(1, 2))

\* A classifier whose loser branch takes every row below one conversion.
ClassifyLoserBelowOne(spend, conversions, cpa, median_cpa) ==
    IF RatLe(Float(1), conversions)
    THEN IF median_cpa = Zero
            \/ (RatLt(Zero, cpa) /\ RatLe(cpa, RatMul(median_cpa, Rat(8, 10))))
         THEN <<"winner", "Converted with efficient CPA">>
         ELSE <<"neutral", "Converted but CPA above efficient threshold">>
    ELSE IF RatLe(Float(100), spend)
         THEN <<"loser", "Spent with 0 conversions">>
         ELSE <<"neutral", "Mixed signal">>

\* _classify_search_term; the reason is the name of the message template.
ClassifySearchTerm(spend, conversions, cpa, median_cpa) ==
    IF RatLe(Float(1), conversions)
    THEN IF median_cpa = Zero
            \/ (RatLt(Zero, cpa) /\ RatLe(cpa, RatMul(median_cpa, Rat(8, 10))))
         THEN <<"winner", "Converted with efficient CPA">>
         ELSE <<"neutral", "Converted but CPA above efficient threshold">>
    ELSE IF RatLe(Float(100), spend) /\ conversions = Zero
         THEN <<"loser", "Spent with 0 conversions">>
         ELSE <<"neutral", "Mixed signal">>

-----------------------------------------------------------------------------
(* Campaign name -> product / intent bucket (lines 114-150).  A text is    *)
(* the sequence of its characters, so that `k in t` is a substring test.   *)

UpperCase == <<"A", "B", "C", "D", "E", "F", "G", "H", "I", "J", "K", "L", "M", "N", "O", "P", "Q", "R", "S", "T", "U", "V", "W", "X", "Y", "Z">>

LowerCase == <<"a", "b", "c", "d", "e", "f", "g", "h", "i", "j", "k", "l", "m", "n", "o", "p", "q", "r", "s", "t", "u", "v", "w", "x", "y", "z">>

\* str.lower()
Lower(text) ==
    [i \in 1..Len(text) |->
        IF \E j \in 1..Len(UpperCase) : UpperCase[j] = text[i]
        THEN LowerCase[CHOOSE j \in 1..Len(UpperCase) : UpperCase[j] = text[i]]
        ELSE text[i]] \o <<>>

\* k in t
Contains(t, k) ==
    \E i \in 0..(Len(t) - Len(k)) : SubSeq(t, i + 1, i + Len(k)) = k

\* t.startswith(k)
StartsWith(t, k) == Len(k) <= Len(t) /\ SubSeq(t, 1, Len(k)) = k

\* t.endswith(k)
EndsWith(t, k) ==
    Len(k) <= Len(t) /\ SubSeq(t, Len(t) - Len(k) + 1, Len(t)) = k

\* any(k in t for k in keywords)
ContainsAny(t, keywords) == \E k \in keywords : Contains(t, k)

TERM_LIFE_KEYWORDS ==
    {<<"t", "e", "r", "m", "l", "i", "f", "e">>,
    <<"t", "e", "r", "m", " ", "l", "i", "f", "e">>,
    <<"t", "e", "r", "m", "-", "l", "i", "f", "e">>,
    <<"l", "i", "f", "e", " ", "i", "n", "s", "u", "r", "a", "n", "c", "e">>}

KwDental == <<"d", "e", "n", "t", "a", "l">>

DISABILITY_KEYWORDS ==
    {<<"d", "i", "s", "a", "b", "i", "l", "i", "t", "y">>,
    <<"i", "d", "i">>}

ANNUITY_KEYWORDS ==
    {<<"a", "n", "n", "u", "i", "t", "y">>,
    <<"a", "n", "n", "u", "i", "t", "i", "e", "s">>,
    <<"r", "i", "l", "a">>,
    <<"r", "e", "t", "i", "r", "e", "m", "e", "n", "t">>}

NETWORK_KEYWORDS ==
    {<<"r", "e", "c", "r", "u", "i", "t">>,
    <<"c", "r", "e", "d", "e", "n", "t", "i", "a", "l">>,
    <<"j", "o", "i", "n">>,
    <<"p", "r", "o", "v", "i", "d", "e", "r">>}

\* infer_product
InferProduct(text) ==
    LET t == Lower(text) IN
    IF ContainsAny(t, TERM_LIFE_KEYWORDS) THEN "Term Life"
    ELSE IF Contains(t, KwDental) THEN "Dental Network"
    ELSE IF ContainsAny(t, DISABILITY_KEYWORDS) THEN "Disability"
    ELSE IF ContainsAny(t, ANNUITY_KEYWORDS) THEN "Annuities"
    ELSE IF ContainsAny(t, NETWORK_KEYWORDS) THEN "Join Our Network"
    ELSE "Other"

NONBRAND_KEYWORDS ==
    {<<"n", "o", "n", "b", "r", "a", "n", "d">>,
    <<"n", "o", "n", "-", "b", "r", "a", "n", "d">>,
    <<"n", "o", "n", "b", "r", "a", "n", "d", "e", "d">>,
    <<"n", "o", "n", "-", "b", "r", "a", "n", "d", "e", "d">>}

KwGoogleBrand == <<"g", "o", "o", "g", "l", "e", "_", "b", "r", "a", "n", "d">>

KwBrandInfix == <<"-", "b", "r", "a", "n", "d", "-">>

KwBranded == <<"-", "b", "r", "a", "n", "d", "e", "d">>

GROUP_KEYWORDS ==
    {<<"g", "r", "o", "u", "p">>,
    <<"e", "m", "p", "l", "o", "y", "e", "r">>,
    <<"w", "o", "r", "k", "s", "i", "t", "e">>,
    <<"a", "b", "m", "-">>}

LEADGEN_KEYWORDS ==
    {<<"l", "e", "a", "d", "g", "e", "n">>,
    <<"c", "o", "n", "v", "e", "r", "s", "i", "o", "n">>,
    <<"q", "u", "o", "t", "e">>,
    <<"q", "u", "o", "t", "e", "s">>}

MIDFUNNEL_KEYWORDS ==
    {<<"m", "i", "d", "f", "u", "n", "n", "e", "l">>,
    <<"e", "d", "u", "c", "a", "t", "i", "o", "n">>,
    <<"a", "l", "w", "a", "y", "s", "o", "n">>,
    <<"t", "r", "a", "f", "f", "i", "c">>,
    <<"a", "w", "a", "r", "e", "n", "e", "s", "s">>}

\* infer_intent_bucket
InferIntentBucket(text) ==
    LET t == Lower(text)
        has_nonbrand == ContainsAny(t, NONBRAND_KEYWORDS)
    IN  IF Contains(t, KwGoogleBrand) \/ StartsWith(t, KwGoogleBrand)
        THEN "Brand"
        ELSE IF ~has_nonbrand /\ (\/ Contains(t, KwBrandInfix)
                                  \/ Contains(t, KwBranded)
                                  \/ EndsWith(t, KwBranded))
        THEN "Brand"
        ELSE IF ContainsAny(t, GROUP_KEYWORDS) THEN "Group"
        ELSE IF ContainsAny(t, LEADGEN_KEYWORDS) THEN "Nonbrand Lead Gen"
        ELSE IF ContainsAny(t, MIDFUNNEL_KEYWORDS) THEN "Education/Midfunnel"
        ELSE "Education/Midfunnel"

-----------------------------------------------------------------------------
(* Transform functions (lines 438-826).  A row is a record that carries    *)
(* the fields of every report type; each transformer reads its own.        *)

\* [f(r) for r in rows]
MapSeq(f(_), rows) == [i \in 1..Len(rows) |-> f(rows[i])] \o <<>>

XfCampaignsRow(r) ==
    LET spend == Micros(r.cost_micros) IN
    [id |-> Str(r.campaign_id), date |-> r.date,
     campaign_name |-> r.campaign_name,
     product |-> InferProduct(r.campaign_name),
     intent_bucket |-> InferIntentBucket(r.campaign_name),
     status |-> Lookup(STATUS_MAP, r.status, "paused"),
     spend |-> spend, clicks |-> r.clicks, conversions |-> r.conversions,
     conversion_value |-> r.conversions_value,
     cpa |-> Div(spend, r.conversions),
     roas |-> Div(r.conversions_value, spend),
     conv_rate |-> Div(r.conversions, Float(r.clicks))]

XfCampaigns(rows) == MapSeq(XfCampaignsRow, rows)

XfKeywordsRow(r) ==
    LET spend == Micros(r.cost_micros) IN
    [id |-> Str(r.criterion_id), date |-> r.date,
     keyword |-> r.keyword_text,
     match_type |-> Lookup(MATCH_MAP, r.match_type, "Broad"),
     campaign_id |-> Str(r.campaign_id), ad_group_id |-> Str(r.ad_group_id),
     quality_score |-> IF r.quality_score = 0 THEN None ELSE Some(r.quality_score),
     spend |-> spend, clicks |-> r.clicks, conversions |-> r.conversions,
     conversion_value |-> r.conversions_value,
     cpa |-> Div(spend, r.conversions),
     roas |-> Div(r.conversions_value, spend),
     conv_rate |-> Div(r.conversions, Float(r.clicks))]

XfKeywords(rows) == MapSeq(XfKeywordsRow, rows)

\* First pass of _xf_search_terms: (spend, convs, cpa, r) per row.
SearchTermsBase(rows) ==
    [i \in 1..Len(rows) |->
        LET spend == Micros(rows[i].cost_micros) IN
        [spend |-> spend, convs |-> rows[i].conversions,
         cpa |-> Div(spend, rows[i].conversions), r |-> rows[i]]]

\* cpas = [cpa for _, convs, cpa, _ in base if convs > 0 and cpa > 0]
SearchTermsCpas(base) ==
    LET Sampled(b) == RatLt(Zero, b.convs) /\ RatLt(Zero, b.cpa)
        kept == SelectSeq(base, Sampled)
    IN  [i \in 1..Len(kept) |-> kept[i].cpa]

\* A one-pass transform: each row is classified against the median of the
\* rows read so far.
XfSearchTermsOnePass(rows) ==
    LET base == SearchTermsBase(rows)
        HasTerm(i) == rows[i].search_term # ""
        kept == Sorted({i \in 1..Len(rows) : HasTerm(i)}, Len(rows) + 1)
        Out(i) ==
            LET b == base[i]
                median_cpa == Med(SearchTermsCpas(SubSeq(base, 1, i)))
                lr == ClassifySearchTerm(b.spend, b.convs, b.cpa, median_cpa) IN
            [id |-> MakeId(<<Str(b.r.campaign_id), Str(b.r.ad_group_id),
                             b.r.search_term, b.r.match_type>>),
             date |-> b.r.date, search_term |-> b.r.search_term,
             campaign_id |-> Str(b.r.campaign_id),
             ad_group_id |-> Str(b.r.ad_group_id),
             match_type |-> Lookup(MATCH_MAP, b.r.match_type, "Broad"),
             label |-> lr[1], reason |-> lr[2],
             spend |-> b.spend, clicks |-> b.r.clicks, conversions |-> b.convs,
             conversion_value |-> b.r.conversions_value, cpa |-> b.cpa]
    IN  [j \in 1..Len(kept) |-> Out(kept[j])] \o <<>>

XfSearchTerms(rows) ==
    LET base == SearchTermsBase(rows)
        median_cpa == Med(SearchTermsCpas(base))
        HasTerm(b) == b.r.search_term # ""
        kept == SelectSeq(base, HasTerm)
        Out(b) ==
            LET lr == ClassifySearchTerm(b.spend, b.convs, b.cpa, median_cpa) IN
            [id |-> MakeId(<<Str(b.r.campaign_id), Str(b.r.ad_group_id),
                             b.r.search_term, b.r.match_type>>),
             date |-> b.r.date, search_term |-> b.r.search_term,
             campaign_id |-> Str(b.r.campaign_id),
             ad_group_id |-> Str(b.r.ad_group_id),
             match_type |-> Lookup(MATCH_MAP, b.r.match_type, "Broad"),
             label |-> lr[1], reason |-> lr[2],
             spend |-> b.spend, clicks |-> b.r.clicks, conversions |-> b.convs,
             conversion_value |-> b.r.conversions_value, cpa |-> b.cpa]
    IN  MapSeq(Out, kept)

XfAdsRow(r) ==
    LET spend == Micros(r.cost_micros) IN
    [id |-> Str(r.ad_id), date |-> r.date,
     campaign_id |-> Str(r.campaign_id), ad_group_id |-> Str(r.ad_group_id),
     spend |-> spend, clicks |-> r.clicks, conversions |-> r.conversions,
     conversion_value |-> r.conversions_value,
     cpa |-> Div(spend, r.conversions)]

XfAds(rows) == MapSeq(XfAdsRow, rows)

\* criterion_id of _xf_geo_performance.  geo_target_region is the resource
\* name as its list of "/"-separated segments (<<>> for an unset field), so
\* split("/")[-1] is its last segment; country_criterion_id is an integer
\* with 0 for unset.
GeoCriterionId(r) ==
    IF r.geo_target_region # <<>>
    THEN r.geo_target_region[Len(r.geo_target_region)]
    ELSE IF r.country_criterion_id = 0 THEN "" ELSE Str(r.country_criterion_id)

XfGeoPerformanceRow(r) ==
    LET spend == Micros(r.cost_micros)
        criterion_id == GeoCriterionId(r)
    IN
    [id |-> MakeId(<<Str(r.campaign_id),
                     IF criterion_id = "" THEN "unknown" ELSE criterion_id>>),
     date |-> r.date, campaign_id |-> Str(r.campaign_id),
     state |-> criterion_id, state_code |-> criterion_id,
     dma |-> r.location_type,
     spend |-> spend, clicks |-> r.clicks, conversions |-> r.conversions,
     conversion_value |-> r.conversions_value,
     cpa |-> Div(spend, r.conversions),
     roas |-> Div(r.conversions_value, spend),
     conv_rate |-> Div(r.conversions, Float(r.clicks))]

XfGeoPerformance(rows) == MapSeq(XfGeoPerformanceRow, rows)

XfDevicePerformanceRow(r) ==
    LET spend == Micros(r.cost_micros)
        device == Lookup(DEVICE_MAP, r.device, "Other")
    IN
    [id |-> MakeId(<<Str(r.campaign_id), device>>),
     date |-> r.date, campaign_id |-> Str(r.campaign_id), device |-> device,
     spend |-> spend, clicks |-> r.clicks, conversions |-> r.conversions,
     conversion_value |-> r.conversions_value,
     cpa |-> Div(spend, r.conversions),
     roas |-> Div(r.conversions_value, spend),
     conv_rate |-> Div(r.conversions, Float(r.clicks))]

XfDevicePerformance(rows) == MapSeq(XfDevicePerformanceRow, rows)

XfHourlyPerformanceRow(r) ==
    LET dow == Lookup(DOW_MAP, r.day_of_week, r.day_of_week) IN
    [id |-> MakeId(<<Str(r.campaign_id), Str(r.hour), dow>>),
     date |-> r.date, campaign_id |-> Str(r.campaign_id),
     hour |-> r.hour, day_of_week |-> dow,
     spend |-> Micros(r.cost_micros), clicks |-> r.clicks,
     conversions |-> r.conversions, conversion_value |-> r.conversions_value]

XfHourlyPerformance(rows) == MapSeq(XfHourlyPerformanceRow, rows)

XfAuctionInsightsRow(r) ==
    [id |-> MakeId(<<Str(r.campaign_id), "self">>),
     date |-> r.date, campaign_id |-> Str(r.campaign_id),
     competitor |-> "You", overlap_rate |-> NoneVal,
     position_above_rate |-> NoneVal]

XfAuctionInsights(rows) == MapSeq(XfAuctionInsightsRow, rows)

XfQualityScoreSnapshotsRow(r) ==
    [id |-> Str(r.criterion_id), date |-> r.date,
     keyword_id |-> Str(r.criterion_id), keyword |-> r.keyword_text,
     campaign_id |-> Str(r.campaign_id),
     product |-> InferProduct(r.campaign_name),
     quality_score |-> r.quality_score,
     spend |-> Micros(r.cost_micros)]

XfQualityScoreSnapshots(rows) == MapSeq(XfQualityScoreSnapshotsRow, rows)

XfConversionActionsRow(r) ==
    [id |-> MakeId(<<Str(r.campaign_id), r.conversion_action_name>>),
     date |-> r.date, campaign_id |-> Str(r.campaign_id),
     product |-> InferProduct(r.campaign_name),
     conversion_type |-> r.conversion_action_name,
     conversions |-> r.conversions, conversion_value |-> r.conversions_value,
     attribution |-> r.conversion_action_category]

XfConversionActions(rows) == MapSeq(XfConversionActionsRow, rows)

XfLandingPages(rows) ==
    LET HasUrl(r) == r.url # ""
        Out(r) ==
            [id |-> MakeId(<<r.url>>), date |-> r.date, url |-> r.url,
             sessions |-> r.clicks, bounce_rate |-> NoneVal,
             conversion_rate |-> Div(r.conversions, Float(r.clicks)),
             conversions |-> r.conversions,
             conversion_value |-> r.conversions_value]
    IN  MapSeq(Out, SelectSeq(rows, HasUrl))

-----------------------------------------------------------------------------
(* Entity registry (lines 833-848)                                         *)

\* The keys of ENTITIES in insertion order, the order dict.items() iterates.
ENTITIES == <<"campaigns", "keywords", "search_terms", "ads", "geo_performance",
              "device_performance", "hourly_performance", "auction_insights",
              "quality_score_snapshots", "conversion_actions", "landing_pages">>

\* cfg["transform"](rows) for the entity `name`
Transform(name, rows) ==
    CASE name = "campaigns" -> XfCampaigns(rows)
      [] name = "keywords" -> XfKeywords(rows)
      [] name = "search_terms" -> XfSearchTerms(rows)
      [] name = "ads" -> XfAds(rows)
      [] name = "geo_performance" -> XfGeoPerformance(rows)
      [] name = "device_performance" -> XfDevicePerformance(rows)
      [] name = "hourly_performance" -> XfHourlyPerformance(rows)
      [] name = "auction_insights" -> XfAuctionInsights(rows)
      [] name = "quality_score_snapshots" -> XfQualityScoreSnapshots(rows)
      [] name = "conversion_actions" -> XfConversionActions(rows)
      [] name = "landing_pages" -> XfLandingPages(rows)

-----------------------------------------------------------------------------
(* Geo enrichment (lines 198-250, 621-685)                                 *)

\* _US_STATE_CODE_BY_NAME as its set of (name, code) items
US_STATE_CODE_BY_NAME == {
    <<"Alabama", "AL">>, <<"Alaska", "AK">>, <<"Arizona", "AZ">>,
    <<"Arkansas", "AR">>, <<"California", "CA">>, <<"Colorado", "CO">>,
    <<"Connecticut", "CT">>, <<"Delaware", "DE">>, <<"District of Columbia", "DC">>,
    <<"Florida", "FL">>, <<"Georgia", "GA">>, <<"Hawaii", "HI">>,
    <<"Idaho", "ID">>, <<"Illinois", "IL">>, <<"Indiana", "IN">>,
    <<"Iowa", "IA">>, <<"Kansas", "KS">>, <<"Kentucky", "KY">>,
    <<"Louisiana", "LA">>, <<"Maine", "ME">>, <<"Maryland", "MD">>,
    <<"Massachusetts", "MA">>, <<"Michigan", "MI">>, <<"Minnesota", "MN">>,
    <<"Mississippi", "MS">>, <<"Missouri", "MO">>, <<"Montana", "MT">>,
    <<"Nebraska", "NE">>, <<"Nevada", "NV">>, <<"New Hampshire", "NH">>,
    <<"New Jersey", "NJ">>, <<"New Mexico", "NM">>, <<"New York", "NY">>,
    <<"North Carolina", "NC">>, <<"North Dakota", "ND">>, <<"Ohio", "OH">>,
    <<"Oklahoma", "OK">>, <<"Oregon", "OR">>, <<"Pennsylvania", "PA">>,
    <<"Rhode Island", "RI">>, <<"South Carolina", "SC">>, <<"South Dakota", "SD">>,
    <<"Tennessee", "TN">>, <<"Texas", "TX">>, <<"Utah", "UT">>,
    <<"Vermont", "VT">>, <<"Virginia", "VA">>, <<"Washington", "WA">>,
    <<"West Virginia", "WV">>, <<"Wisconsin", "WI">>, <<"Wyoming", "WY">>
    }

\* _US_STATE_CODE_BY_NAME.get(name, fallback)
StateCode(name, fallback) ==
    IF \E p \in US_STATE_CODE_BY_NAME : p[1] = name
    THEN (CHOOSE p \in US_STATE_CODE_BY_NAME : p[1] = name)[2]
    ELSE fallback

\* The decimal digits of a natural number, most significant first.
RECURSIVE Digits(_)
Digits(n) == IF n < 10 THEN <<n>> ELSE Digits(n \div 10) \o <<n % 10>>

\* Python's order on two decimal strings, each given by its digits.
StrLt(da, db) ==
    \/ \E k \in 1..Min(Len(da), Len(db)) :
          /\ \A j \in 1..(k - 1) : da[j] = db[j]
          /\ da[k] < db[k]
    \/ /\ Len(da) < Len(db)
       /\ \A j \in 1..Len(da) : da[j] = db[j]

\* chunk_size of _geo_target_details
GEO_CHUNK_SIZE == 200

\* The first identifier of a block of consecutive region identifiers.
BulkGeoBase == 30000

\* The criterion identifiers the provider's reference data may name: two
\* countries, six regions, and a block of GeoBatches * GEO_CHUNK_SIZE + 50
\* further regions.
GeoIds ==
    {2840} \cup (21132..21137) \cup {9061}
        \cup ((BulkGeoBase + 1)..(BulkGeoBase + GeoBatches * GEO_CHUNK_SIZE + 50))

\* The decimal strings of GeoIds, each with its digits.
NumericStrings == {<<Str(n), Digits(n)>> : n \in GeoIds}

\* str.isdigit() on the strings of the model: the numeric ones are the
\* decimal strings of GeoIds; "", "unknown" and other text are not.
IsDigit(s) == \E p \in NumericStrings : p[1] = s

\* criterion_ids of _enrich_geo_records: the sorted list of the distinct
\* numeric state_code values (strip() changes no string of the model, none
\* of which carries white space).
CriterionIds(records) ==
    LET codes == {records[i].state_code : i \in 1..Len(records)}
        present == {p \in NumericStrings : p[1] \in codes}
        ranked == {<<Cardinality({q \in present : StrLt(q[2], p[2])}), p[1]>> :
                      p \in present}
    IN  [k \in 1..Cardinality(present) |->
            (CHOOSE r \in ranked : r[1] = k - 1)[2]] \o <<>>

\* The chunks criterion_ids[i : i + chunk_size] of _geo_target_details.
GeoChunks(criterion_ids) ==
    LET starts == RangeStep(Len(criterion_ids), GEO_CHUNK_SIZE)
    IN  [p \in 1..Len(starts) |->
            SubSeq(criterion_ids, starts[p] + 1,
                   Min(starts[p] + GEO_CHUNK_SIZE, Len(criterion_ids)))]

\* A resolution that starts an empty mapping for every chunk, so that only
\* the rows of the last query are kept.
GeoTargetDetailsLastChunk(constants, criterion_ids) ==
    LET chunks == GeoChunks(criterion_ids)
        last == IF chunks = <<>> THEN {} ELSE Range(chunks[Len(chunks)])
    IN  [c \in {x \in last : x \in DOMAIN constants} |-> constants[c]]

\* _geo_target_details: `constants` is the provider's reference data, a
\* function from identifier string to its row; a query returns the rows of
\* the identifiers of its chunk that the provider knows, and resolved[cid] is
\* assigned for each returned row.
GeoTargetDetails(constants, criterion_ids) ==
    LET chunks == GeoChunks(criterion_ids)
        Returned(p) == {c \in Range(chunks[p]) : c \in DOMAIN constants}
        known == UNION {Returned(p) : p \in 1..Len(chunks)}
    IN  [c \in known |-> constants[c]]

\* A loop body that blanks the geo fields of a record it cannot resolve.
EnrichOneBlanking(details, rec) ==
    LET raw_id == rec.state_code IN
    IF raw_id \notin DOMAIN details
    THEN [rec EXCEPT !.state = "", !.state_code = "", !.dma = ""]
    ELSE [rec EXCEPT !.state = details[raw_id].name, !.dma = details[raw_id].target_type]

\* The body of the second loop of _enrich_geo_records for one record.
EnrichOne(details, rec) ==
    LET raw_id == rec.state_code IN
    IF raw_id \notin DOMAIN details
    THEN rec
    ELSE LET info == details[raw_id] IN
         IF info.country_code = "US" /\ info.target_type \in {"State", "Province"}
         THEN [rec EXCEPT !.state = info.name,
                          !.state_code = StateCode(info.name, raw_id),
                          !.dma = info.target_type]
         ELSE [rec EXCEPT !.state = IF info.canonical_name # ""
                                    THEN info.canonical_name ELSE info.name,
                          !.state_code = raw_id,
                          !.dma = info.target_type]

\* _enrich_geo_records when no lookup raises
EnrichGeoRecords(constants, records) ==
    LET details == GeoTargetDetails(constants, CriterionIds(records))
    IN  [i \in 1..Len(records) |-> EnrichOne(details, records[i])]

-----------------------------------------------------------------------------
(* The environment: the provider's responses and the store                 *)

Day1 == "2026-02-17"

Day2 == "2026-02-18"

\* Campaign names of the provider's rows.
NameLeadgen == <<"l", "e", "a", "d", "g", "e", "n", "-", "q", "u", "o", "t", "e", "s", "-", "n", "o", "n", "b", "r", "a", "n", "d">>

NameBrand == <<"g", "o", "o", "g", "l", "e", "_", "b", "r", "a", "n", "d", "_", "s", "e", "a", "r", "c", "h">>

BaseRow ==
    [campaign_id |-> 1, campaign_name |-> NameLeadgen,
     status |-> "ENABLED", ad_group_id |-> 10, criterion_id |-> 100,
     keyword_text |-> "term life quotes", match_type |-> "EXACT",
     quality_score |-> 7, search_term |-> "life insurance quote",
     ad_id |-> 1000, geo_target_region |-> <<"geoTargetConstants", "21137">>,
     country_criterion_id |-> 2840, location_type |-> "LOCATION_OF_PRESENCE",
     device |-> "MOBILE", hour |-> 9, day_of_week |-> "MONDAY",
     conversion_action_name |-> "Quote Start",
     conversion_action_category |-> "LEAD", url |-> "https://example.com/quote",
     date |-> Day1, cost_micros |-> 150000000, clicks |-> 30,
     conversions |-> Float(2), conversions_value |-> Float(300)]

\* A second row that differs from BaseRow in every key field.
OtherRow ==
    [BaseRow EXCEPT !.campaign_id = 2, !.campaign_name = NameBrand,
        !.ad_group_id = 20, !.criterion_id = 200, !.search_term = "guardian dental",
        !.ad_id = 2000, !.geo_target_region = <<>>, !.device = "DESKTOP",
        !.hour = 17, !.day_of_week = "HOLIDAY",
        !.conversion_action_name = "Call", !.url = "https://example.com/dental",
        !.date = Day2, !.cost_micros = 120000000, !.clicks = 0,
        !.conversions = Zero, !.conversions_value = Zero]

\* A row the provider reports separately from BaseRow (another ad group,
\* device OTHER where TwinRowB has UNKNOWN, another location type) with
\* other metric values.
TwinRowA ==
    [BaseRow EXCEPT !.device = "OTHER", !.location_type = "AREA_OF_INTEREST",
        !.cost_micros = 40000000, !.clicks = 8]

TwinRowB ==
    [BaseRow EXCEPT !.ad_group_id = 11, !.device = "UNKNOWN",
        !.cost_micros = 500000, !.clicks = 1, !.conversions = Rat(1, 2)]

\* A row with an unresolvable region and empty text keys.
BlankRow ==
    [OtherRow EXCEPT !.search_term = "", !.url = "",
        !.geo_target_region = <<"geoTargetConstants", "9061">>,
        !.country_criterion_id = 0]

BulkRows == [i \in 1..(BulkBatches * BATCH_SIZE + 1) |->
                [BaseRow EXCEPT !.criterion_id = i]] \o <<>>

Scenarios == {"distinct", "colliding", "sparse", "bulk"}

\* _run_gaql(ga, query) for the entity's query: the rows the provider serves.
ApiRows(scenario, name) ==
    CASE scenario = "distinct" -> <<BaseRow, OtherRow>>
      [] scenario = "colliding" -> <<TwinRowA, OtherRow, TwinRowB>>
      [] scenario = "sparse" ->
            IF name \in {"search_terms", "landing_pages", "geo_performance"}
            THEN <<BlankRow>> ELSE <<>>
      [] scenario = "bulk" ->
            IF name = "keywords" THEN BulkRows ELSE <<BaseRow>>

\* The provider's geo_target_constant reference data.
GeoConstants ==
    [c \in {"21137", "2840"} |->
        IF c = "21137"
        THEN [name |-> "New York", canonical_name |-> "New York,United States",
              target_type |-> "State", country_code |-> "US"]
        ELSE [name |-> "United States", canonical_name |-> "United States",
              target_type |-> "Country", country_code |-> "US"]]

\* The store's effect of upsert(chunk, on_conflict="id,date"): a row with the
\* conflict key of a chunk record is replaced by it, other records are added.
StoreUpsert(rows, chunk) ==
    LET ks == {Key(chunk[i]) : i \in 1..Len(chunk)}
    IN  {r \in rows : Key(r) \notin ks} \cup Range(chunk)

RECURSIVE StoreUpsertAll(_, _)
StoreUpsertAll(rows, chunks) ==
    IF chunks = <<>> THEN rows
    ELSE StoreUpsertAll(StoreUpsert(rows, Head(chunks)), Tail(chunks))

-----------------------------------------------------------------------------
(* Sync orchestration (lines 901-959)                                      *)

\* The text of the exception raised by a failing step.
ExcQuery == "GoogleAdsException"

ExcTransform == "ValueError"

ExcGeo == "GoogleAdsException in geo lookup"

ExcUpsert == "APIError"

ExcTexts == {ExcQuery, ExcTransform, ExcGeo, ExcUpsert}

Call(op, entity, n, raised) == [op |-> op, entity |-> entity, n |-> n, raised |-> raised]

SyncEntryWrongStatus == [status |-> "success", records_synced |-> 0, error_message |-> NoneVal]

\* sync_entry (started_at, a timestamp, is not carried)
SyncEntry == [status |-> "running", records_synced |-> 0, error_message |-> NoneVal]

\* The identifier the store assigns to a new sync_log row.
NewSyncId == Len(sync_log) + 1

\* records after cfg["transform"](rows) and, for geo_performance, enrichment
Records(name) ==
    LET t == Transform(name, ApiRows(api, name))
    IN  IF name = "geo_performance" THEN EnrichGeoRecords(GeoConstants, t) ELSE t

\* The number of reference-data queries enrichment issues for the entity.
GeoLookups(name) ==
    IF name = "geo_performance"
    THEN Len(GeoChunks(CriterionIds(Transform(name, ApiRows(api, name)))))
    ELSE 0

\* The calls of an entity up to and including its transform.
CallsToTransform(name) ==
    <<Call("query", name, 0, FALSE), Call("transform", name, 0, FALSE)>>

CallsToEnrich(name) ==
    CallsToTransform(name)
        \o [j \in 1..GeoLookups(name) |-> Call("geo_lookup", name, 0, FALSE)]

\* Store calls in which a batch that raised is sent once more.
UpsertCallsRetrying(name, chunks, raisedAt) ==
    [b \in 1..Len(chunks) |-> Call("upsert", name, Len(chunks[b]), b = raisedAt)]
        \o (IF raisedAt > 0
            THEN <<Call("upsert", name, Len(chunks[raisedAt]), FALSE)>>
            ELSE <<>>)

UpsertCalls(name, chunks, raisedAt) ==
    [b \in 1..Len(chunks) |-> Call("upsert", name, Len(chunks[b]), b = raisedAt)]

\* An except clause that leaves the loop.
PcAfterExceptBreak(i) == "finalise"

\* The for loop after an iteration that went through the except clause
\* (lines 939-942): the clause falls through to the next entity.
PcAfterExcept(i) == IF i = Len(ENTITIES) THEN "finalise" ELSE "loop"

\* The for loop after an iteration that completed its try block.
PcAfterTry(i) == IF i = Len(ENTITIES) THEN "finalise" ELSE "loop"

\* msg = f"{name}: {exc}"
ErrorMsg(name, exc) == name \o ": " \o exc

Failed(name, exc, newCalls) ==
    /\ faults > 0
    /\ faults' = faults - 1
    /\ errors' = Append(errors, ErrorMsg(name, exc))
    /\ calls' = calls \o newCalls
    /\ idx' = idx + 1
    /\ pc' = PcAfterExcept(idx)
    /\ UNCHANGED <<sync_id, total_records, exit_code, sync_log, api, run, synced>>
    /\ UNCHANGED <<items, fnVars>>

\* sync_res = supa.table("sync_log").insert(sync_entry).execute() returns the
\* inserted row; sync_id = sync_res.data[0]["id"].
InsertRunRecord ==
    /\ pc = "start"
    /\ sync_log' = Append(sync_log, SyncEntry @@ [id |-> NewSyncId])
    /\ sync_id' = Some(NewSyncId)
    /\ calls' = Append(calls, Call("insert", "sync_log", 1, FALSE))
    /\ pc' = "loop"
    /\ idx' = 1
    /\ total_records' = 0
    /\ errors' = <<>>
    /\ UNCHANGED <<exit_code, tables, api, faults, run, synced>>
    /\ UNCHANGED <<items, fnVars>>

\* The insert returns no row (sync_res.data is empty): sync_id = None.
InsertRunRecordNoRow ==
    /\ pc = "start"
    /\ sync_id' = None
    /\ calls' = Append(calls, Call("insert", "sync_log", 0, FALSE))
    /\ pc' = "loop"
    /\ idx' = 1
    /\ total_records' = 0
    /\ errors' = <<>>
    /\ UNCHANGED <<exit_code, sync_log, tables, api, faults, run, synced>>
    /\ UNCHANGED <<items, fnVars>>

\* The insert raises: line 918 is outside every try block, the exception
\* leaves sync() and main(), and the interpreter exits with status 1.
InsertRunRecordRaises ==
    /\ pc = "start"
    /\ faults > 0
    /\ faults' = faults - 1
    /\ calls' = Append(calls, Call("insert", "sync_log", 0, TRUE))
    /\ pc' = "crashed"
    /\ exit_code' = Some(1)
    /\ UNCHANGED <<idx, sync_id, total_records, errors, sync_log, tables, api, run, synced>>
    /\ UNCHANGED <<items, fnVars>>

\* An assignment that overwrites the running total.
AddTotalOverwrite(total, n) == n

\* total_records += n
AddTotal(total, n) == total + n

\* One iteration of the loop whose try block completes.
EntityOk ==
    /\ pc = "loop"
    /\ LET name == items[idx]
           records == Records(name)
           up == Upsert(name, records)
           chunks == [b \in 1..Len(up.sent) |-> up.sent[b].chunk]
       IN  /\ tables' = [tables EXCEPT ![name] = StoreUpsertAll(@, chunks)]
           /\ total_records' = AddTotal(total_records, up.ret)
           /\ calls' = calls \o CallsToEnrich(name) \o UpsertCalls(name, chunks, 0)
    /\ idx' = idx + 1
    /\ pc' = PcAfterTry(idx)
    /\ UNCHANGED <<sync_id, errors, exit_code, sync_log, api, faults, run, synced>>
    /\ UNCHANGED <<items, fnVars>>

\* _run_gaql raises.
EntityQueryRaises ==
    /\ pc = "loop"
    /\ Failed(items[idx], ExcQuery, <<Call("query", items[idx], 0, TRUE)>>)
    /\ UNCHANGED tables

\* cfg["transform"](rows) raises.
EntityTransformRaises ==
    /\ pc = "loop"
    /\ Failed(items[idx], ExcTransform,
              <<Call("query", items[idx], 0, FALSE),
                Call("transform", items[idx], 0, TRUE)>>)
    /\ UNCHANGED tables

\* The j-th reference-data query of _enrich_geo_records raises.
EntityEnrichRaises ==
    /\ pc = "loop"
    /\ \E j \in 1..GeoLookups(items[idx]) :
          Failed(items[idx], ExcGeo,
                 CallsToTransform(items[idx])
                    \o [i \in 1..j |-> Call("geo_lookup", items[idx], 0, i = j)])
    /\ UNCHANGED tables

\* The k-th store call of _upsert raises: the chunks before it are stored.
EntityUpsertRaises ==
    /\ pc = "loop"
    /\ LET name == items[idx]
           up == Upsert(name, Records(name))
           chunks == [b \in 1..Len(up.sent) |-> up.sent[b].chunk]
       IN  \E k \in 1..Len(chunks) :
              /\ tables' = [tables EXCEPT
                                ![name] = StoreUpsertAll(@, SubSeq(chunks, 1, k - 1))]
              /\ Failed(name, ExcUpsert,
                        CallsToEnrich(name)
                            \o UpsertCalls(name, SubSeq(chunks, 1, k), k))

\* "; ".join(errors) if errors else None
ErrorMessage(errs) == IF errs # <<>> THEN Join("; ", errs) ELSE NoneVal

\* The update of lines 946-953 applied to the row whose id is sync_id
\* (completed_at, a timestamp, is not carried).
FinalisedLog(log, id, errs, total) ==
    [i \in 1..Len(log) |->
        IF log[i].id = id
        THEN [log[i] EXCEPT !.status = IF errs # <<>> THEN "error" ELSE "success",
                            !.records_synced = total,
                            !.error_message = ErrorMessage(errs)]
        ELSE log[i]]

\* if sync_id: supa.table("sync_log").update(...).eq("id", sync_id).execute()
FinaliseUpdate ==
    /\ pc = "finalise"
    /\ sync_id # None
    /\ sync_log' = FinalisedLog(sync_log, sync_id[1], errors, total_records)
    /\ calls' = Append(calls, Call("update", "sync_log", 1, FALSE))
    /\ pc' = "exit"
    /\ UNCHANGED <<idx, sync_id, total_records, errors, exit_code, tables, api, faults,
                   run, synced>>
    /\ UNCHANGED <<items, fnVars>>

\* The update raises: like line 918, lines 946-953 are outside every try.
FinaliseUpdateRaises ==
    /\ pc = "finalise"
    /\ sync_id # None
    /\ faults > 0
    /\ faults' = faults - 1
    /\ calls' = Append(calls, Call("update", "sync_log", 0, TRUE))
    /\ pc' = "crashed"
    /\ exit_code' = Some(1)
    /\ UNCHANGED <<idx, sync_id, total_records, errors, sync_log, tables, api, run, synced>>
    /\ UNCHANGED <<items, fnVars>>

\* sync_id is None: no update is sent.
FinaliseSkip ==
    /\ pc = "finalise"
    /\ sync_id = None
    /\ pc' = "exit"
    /\ UNCHANGED <<idx, sync_id, total_records, errors, exit_code, sync_log, tables,
                   calls, api, faults, run, synced>>
    /\ UNCHANGED <<items, fnVars>>

\* if errors: sys.exit(1); otherwise sync() and main() return and the
\* interpreter exits with status 0.
Exit ==
    /\ pc = "exit"
    /\ exit_code' = IF errors # <<>> THEN Some(1) ELSE Some(0)
    /\ pc' = "done"
    /\ UNCHANGED <<idx, sync_id, total_records, errors, sync_log, tables, calls, api,
                   faults, run, synced>>
    /\ UNCHANGED <<items, fnVars>>

\* The entities whose iteration raised in the current run.
FailedEntities == {c.entity : c \in {x \in Range(calls) : x.raised /\ x.op # "insert"
                                                         /\ x.op # "update"}}

\* The entities whose iteration completed its try block in the current run.
CompletedEntities == {items[i] : i \in 1..(idx - 1)} \ FailedEntities

\* The scheduler invokes the script again: a new process, the same store.
Rerun ==
    /\ pc \in {"done", "crashed"}
    /\ run = "first"
    /\ run' = "second"
    /\ synced' = synced \cup CompletedEntities
    /\ pc' = "start"
    /\ idx' = 1
    /\ sync_id' = None
    /\ total_records' = 0
    /\ errors' = <<>>
    /\ exit_code' = None
    /\ calls' = <<>>
    /\ UNCHANGED <<sync_log, tables, api, faults>>
    /\ UNCHANGED <<items, fnVars>>

InitSync ==
    /\ pc = "start"
    /\ idx = 1
    /\ sync_id = None
    /\ total_records = 0
    /\ errors = <<>>
    /\ exit_code = None
    /\ sync_log = <<>>
    /\ tables = [name \in Range(ENTITIES) |-> {}]
    /\ calls = <<>>
    /\ run = "first"
    /\ synced = {}

InitFnIdle ==
    /\ fn = "idle"
    /\ arg = <<>>
    /\ ret = <<>>
    /\ sent = <<>>

Init ==
    /\ InitSync
    /\ items = ENTITIES
    /\ api \in Scenarios
    /\ faults = IF api = "bulk" THEN BulkFaults ELSE MaxFaults
    /\ InitFnIdle

InitResync ==
    /\ InitSync
    /\ items = ENTITIES
    /\ faults = ResyncFaults
    /\ api \in Scenarios \ {"bulk"}
    /\ InitFnIdle

Next ==
    \/ InsertRunRecord
    \/ InsertRunRecordNoRow
    \/ InsertRunRecordRaises
    \/ EntityOk
    \/ EntityQueryRaises
    \/ EntityTransformRaises
    \/ EntityEnrichRaises
    \/ EntityUpsertRaises
    \/ FinaliseUpdate
    \/ FinaliseUpdateRaises
    \/ FinaliseSkip
    \/ Exit

Spec == Init /\ [][Next]_vars

NextResync == Next \/ Rerun

SpecResync == InitResync /\ [][NextResync]_vars

-----------------------------------------------------------------------------
(* SpecOrder: one run of sync() with the catalog visited in another order  *)

Reverse(s) == [i \in 1..Len(s) |-> s[Len(s) + 1 - i]]

\* s with its first k elements moved to the end
Rotate(s, k) == SubSeq(s, k + 1, Len(s)) \o SubSeq(s, 1, k)

\* Processing orders: the catalog's own order, its first rotations (by four
\* places each), and its reverse.
Orders ==
    {Rotate(ENTITIES, 4 * k % Len(ENTITIES)) : k \in 0..OrderRotations}
        \cup {Reverse(ENTITIES)}

InitOrder ==
    /\ InitSync
    /\ items \in Orders
    /\ api \in Scenarios \ {"bulk"}
    /\ faults = OrderFaults
    /\ InitFnIdle

SpecOrder == InitOrder /\ [][Next]_vars

-----------------------------------------------------------------------------
(* The date range of a run (lines 894-905, 967-995).  An instant is a      *)
(* record of year, month, day and hour in UTC; a command-line argument is  *)
(* None when the option is absent and <<text>> when it is given.           *)

IsLeap(y) == (y % 4 = 0 /\ y % 100 # 0) \/ y % 400 = 0

DaysIn(y, m) ==
    IF m = 2 THEN (IF IsLeap(y) THEN 29 ELSE 28)
    ELSE IF m \in {4, 6, 9, 11} THEN 30 ELSE 31

\* datetime - timedelta(days=1): the same time of day on the previous day
MinusOneDay(t) ==
    IF t.day > 1 THEN [t EXCEPT !.day = t.day - 1]
    ELSE IF t.month > 1
         THEN [t EXCEPT !.month = t.month - 1, !.day = DaysIn(t.year, t.month - 1)]
         ELSE [t EXCEPT !.year = t.year - 1, !.month = 12, !.day = 31]

Pad2(n) == IF n < 10 THEN "0" \o ToString(n) ELSE ToString(n)

\* strftime("%Y-%m-%d") for a four-digit year
Strftime(t) == ToString(t.year) \o "-" \o Pad2(t.month) \o "-" \o Pad2(t.day)

\* Truthiness of an optional text: None and "" are falsy.
Truthy(opt) == opt # None /\ opt[1] # ""

\* a or b, for an optional text a and a text b
OrElse(opt, text) == IF Truthy(opt) THEN opt[1] ELSE text

\* _date_condition
DateCondition(date_from, date_to) ==
    IF date_from = date_to
    THEN "segments.date = '" \o date_from \o "'"
    ELSE "segments.date BETWEEN '" \o date_from \o "' AND '" \o date_to \o "'"

\* cfg["query"].format(date_condition=date_cond): the entity's template with
\* the text that takes the place of {date_condition}.
FormatQuery(name, date_cond) == [template |-> name, date_condition |-> date_cond]

\* A run whose d_to falls back to yesterday rather than to d_from.
SyncDatesToYesterday(date_from, date_to, now) ==
    LET yesterday == Strftime(MinusOneDay(now))
    IN  [d_from |-> OrElse(date_from, yesterday), d_to |-> OrElse(date_to, yesterday)]

\* sync(), lines 902-904: d_from and d_to
SyncDates(date_from, date_to, now) ==
    LET yesterday == Strftime(MinusOneDay(now))
        d_from == OrElse(date_from, yesterday)
    IN  [d_from |-> d_from, d_to |-> OrElse(date_to, d_from)]

\* main(), lines 990-995: the arguments sync() is called with
MainArgs(args) ==
    IF Truthy(args.date) THEN [date_from |-> args.date, date_to |-> args.date]
    ELSE IF Truthy(args.date_from)
         THEN [date_from |-> args.date_from, date_to |-> args.date_to]
         ELSE [date_from |-> None, date_to |-> None]

\* main() up to the queries sync() builds: the effective range, the
\* predicate, and the query of every entity in catalog order.
ResolveRun(args, now) ==
    LET a == MainArgs(args)
        d == SyncDates(a.date_from, a.date_to, now)
        date_cond == DateCondition(d.d_from, d.d_to)
    IN  [d_from |-> d.d_from, d_to |-> d.d_to, date_cond |-> date_cond,
         queries |-> [i \in 1..Len(ENTITIES) |-> FormatQuery(ENTITIES[i], date_cond)]]

-----------------------------------------------------------------------------
(* SpecFn: the helpers applied to inputs drawn from bounded sets           *)

TinyRecs == [id : {"a", "b"}, date : {Day1, Day2}, v : {1, 2}]

\* Every record list of at most MaxLen records over TinyRecs.
TinyLists == UNION {[1..n -> TinyRecs] : n \in 0..MaxLen}

\* n records whose ids cycle through m values.
GenRecords(n, m) ==
    [i \in 1..n |-> [id |-> Str(i % m), date |-> Day1, v |-> i]] \o <<>>

\* Record lists around the multiples of BATCH_SIZE, with all keys distinct
\* (m = n), with BATCH_SIZE distinct keys and with 7 distinct keys.
BulkLists ==
    {GenRecords(k * BATCH_SIZE + e, m) :
        k \in 1..FnBatches, e \in {-1, 0, 1}, m \in {7, BATCH_SIZE, FnBatches * BATCH_SIZE + 1}}

\* Rows that vary in the fields the provider segments a report by.
XfRows ==
    {[BaseRow EXCEPT !.campaign_id = c, !.ad_group_id = g, !.device = d,
                     !.location_type = l, !.date = t] :
        c \in {1, 2}, g \in {10, 11}, d \in {"MOBILE", "OTHER", "UNKNOWN"},
        l \in {"LOCATION_OF_PRESENCE", "AREA_OF_INTEREST"}, t \in {Day1, Day2}}

XfRowLists == UNION {[1..n -> XfRows] : n \in 0..2}

\* Rows that vary in the metrics: each of cost, clicks, conversions and
\* conversion value is zero or positive.
MetricRows ==
    {[BaseRow EXCEPT !.cost_micros = m, !.clicks = k, !.conversions = c,
                     !.conversions_value = v] :
        m \in {0, 150000000}, k \in {0, 30}, c \in {Zero, Rat(1, 2), Float(2)},
        v \in {Zero, Float(300)}}

MetricRowLists == UNION {[1..n -> MetricRows] : n \in 1..2}

\* Search-term rows: with and without a term; no spend, spend without
\* conversions, and CPAs of 40, 80, 100 and 200.
TermRows ==
    {[BaseRow EXCEPT !.search_term = t, !.cost_micros = mc[1], !.conversions = mc[2]] :
        t \in {"term life quotes", ""},
        mc \in {<<0, Zero>>, <<200000000, Zero>>, <<80000000, Float(2)>>,
                <<80000000, Float(1)>>, <<200000000, Float(2)>>,
                <<200000000, Float(1)>>}}

TermRowLists == UNION {[1..n -> TermRows] : n \in 0..TermLen}

\* The row lists a transformer is applied to.
TransformInputs(name) ==
    XfRowLists \cup MetricRowLists
        \cup (IF name = "search_terms" THEN TermRowLists ELSE {})

ApplyDedupe ==
    /\ fn = "idle"
    /\ \E records \in TinyLists :
          /\ fn' = "_dedupe"
          /\ arg' = records
          /\ ret' = Dedupe(records)
          /\ sent' = <<>>
    /\ UNCHANGED syncVars

ApplyUpsert ==
    /\ fn = "idle"
    /\ \E records \in TinyLists \cup BulkLists :
          LET up == Upsert("keywords", records)
          IN  /\ fn' = "_upsert"
              /\ arg' = records
              /\ ret' = up.ret
              /\ sent' = up.sent
    /\ UNCHANGED syncVars

ApplyTransform ==
    /\ fn = "idle"
    /\ \E name \in Range(ENTITIES) : \E rows \in TransformInputs(name) :
          /\ fn' = "transform"
          /\ arg' = [entity |-> name, rows |-> rows]
          /\ ret' = Transform(name, rows)
          /\ sent' = <<>>
    /\ UNCHANGED syncVars

\* Metric values on both sides of each threshold of _classify_search_term.
ClassifySpends == {Zero, Rat(9999, 100), Float(100), Float(250)}

ClassifyConversions == {Zero, Rat(1, 2), Float(1), Float(3)}

ClassifyCpas == {Zero, Float(8), Rat(801, 100), Float(10)}

ClassifyMedians == {Zero, Float(10), Rat(25, 2)}

ApplyClassify ==
    /\ fn = "idle"
    /\ \E spend \in ClassifySpends, conversions \in ClassifyConversions,
          cpa \in ClassifyCpas, median_cpa \in ClassifyMedians :
          /\ fn' = "_classify_search_term"
          /\ arg' = [spend |-> spend, conversions |-> conversions,
                     cpa |-> cpa, median_cpa |-> median_cpa]
          /\ ret' = ClassifySearchTerm(spend, conversions, cpa, median_cpa)
          /\ sent' = <<>>
    /\ UNCHANGED syncVars

\* Pieces of campaign names: every kind of keyword of infer_intent_bucket,
\* in lower and mixed case, and pieces that are no keyword.
NameFragments ==
    {<<"g", "o", "o", "g", "l", "e", "_", "b", "r", "a", "n", "d">>,
     <<"n", "o", "n">>,
     <<"-", "b", "r", "a", "n", "d", "-">>,
     <<"-", "b", "r", "a", "n", "d", "e", "d">>,
     <<"n", "o", "n", "b", "r", "a", "n", "d">>,
     <<"G", "r", "o", "u", "p">>,
     <<"e", "m", "p", "l", "o", "y", "e", "r">>,
     <<"a", "b", "m", "-">>,
     <<"L", "e", "a", "d", "G", "e", "n">>,
     <<"q", "u", "o", "t", "e">>,
     <<"e", "d", "u", "c", "a", "t", "i", "o", "n">>,
     <<"_", "x">>}

\* Every concatenation of at most n fragments.
RECURSIVE NamesOf(_)
NamesOf(n) ==
    IF n = 0 THEN {<<>>}
    ELSE LET shorter == NamesOf(n - 1)
         IN  shorter \cup {t \o f : t \in shorter, f \in NameFragments}

ApplyInferIntentBucket ==
    /\ fn = "idle"
    /\ \E text \in NamesOf(MaxFrags) :
          /\ fn' = "infer_intent_bucket"
          /\ arg' = text
          /\ ret' = InferIntentBucket(text)
          /\ sent' = <<>>
    /\ UNCHANGED syncVars

\* Values of one date option: absent, empty, or a date.
DateOptions == {None, Some(""), Some(Day1), Some(Day2)}

CliArgs == [date : DateOptions, date_from : DateOptions, date_to : DateOptions]

\* Instants at which a run starts: around a month end, a year end, the end
\* of February in a leap and in a common year, early and late in the day.
Instants ==
    {[year |-> d[1], month |-> d[2], day |-> d[3], hour |-> h] :
        d \in {<<2026, 2, 19>>, <<2026, 3, 1>>, <<2024, 3, 1>>, <<2026, 1, 1>>,
               <<2026, 5, 1>>},
        h \in {0, 23}}

ApplyMain ==
    /\ fn = "idle"
    /\ \E args \in CliArgs, now \in Instants :
          /\ fn' = "main"
          /\ arg' = [args |-> args, now |-> now]
          /\ ret' = ResolveRun(args, now)
          /\ sent' = <<>>
    /\ UNCHANGED syncVars

\* Geo report rows: a region the reference data knows as a state, a region
\* it does not know, a resource name whose last segment is not a number, no
\* region with a known country, an unknown country, or no country.
GeoRows ==
    {[BaseRow EXCEPT !.geo_target_region = g, !.country_criterion_id = c] :
        g \in {<<>>, <<"geoTargetConstants", "21137">>,
               <<"geoTargetConstants", "21135">>, <<"geoTargetConstants", "unknown">>},
        c \in {0, 2840, 9061}}

GeoRowLists == UNION {[1..n -> GeoRows] : n \in 0..2}

\* Geo rows that name n distinct regions of the block, then one region a
\* second time under another campaign, one resource name whose last segment
\* is no number, and one row with neither region nor country.
BulkGeoRows(n) ==
    ([i \in 1..n |->
        [BaseRow EXCEPT !.geo_target_region =
                            <<"geoTargetConstants", Str(BulkGeoBase + n + 1 - i)>>]]
     \o (IF n > 0
         THEN <<[BaseRow EXCEPT !.campaign_id = 2,
                     !.geo_target_region = <<"geoTargetConstants", Str(BulkGeoBase + 1)>>]>>
         ELSE <<>>)
     \o <<[BaseRow EXCEPT !.geo_target_region = <<"geoTargetConstants", "unknown">>],
          [BaseRow EXCEPT !.geo_target_region = <<>>, !.country_criterion_id = 0]>>)

\* The numbers of distinct regions tried: none, one, and those around the
\* multiples of GEO_CHUNK_SIZE up to GeoBatches * GEO_CHUNK_SIZE + 50.
GeoSizes ==
    {0, 1} \cup {k * GEO_CHUNK_SIZE + e : k \in 1..GeoBatches, e \in {-1, 0, 1}}
           \cup {GeoBatches * GEO_CHUNK_SIZE + 50}

\* Reference data for the block: the provider knows the regions whose
\* number is not a multiple of `gap`.
BulkGeoConstants(gap) ==
    [c \in {Str(n) : n \in {m \in (BulkGeoBase + 1)..(BulkGeoBase + GeoBatches * GEO_CHUNK_SIZE + 50) :
                                m % gap # 0}} |->
        [name |-> "Region " \o c, canonical_name |-> "Region " \o c \o ",United States",
         target_type |-> "County", country_code |-> "US"]]

ApplyGeoTargetDetails ==
    /\ fn = "idle"
    /\ \E n \in GeoSizes, gap \in {2, 3} :
          LET records == XfGeoPerformance(BulkGeoRows(n))
              criterion_ids == CriterionIds(records)
          IN  /\ fn' = "_geo_target_details"
              /\ arg' = [records |-> records, criterion_ids |-> criterion_ids,
                         constants |-> DOMAIN BulkGeoConstants(gap)]
              /\ ret' = GeoTargetDetails(BulkGeoConstants(gap), criterion_ids)
              /\ sent' = GeoChunks(criterion_ids)
    /\ UNCHANGED syncVars

ApplyEnrich ==
    /\ fn = "idle"
    /\ \E rows \in GeoRowLists :
          LET records == XfGeoPerformance(rows)
          IN  /\ fn' = "_enrich_geo_records"
              /\ arg' = records
              /\ ret' = EnrichGeoRecords(GeoConstants, records)
              /\ sent' = GeoChunks(CriterionIds(records))
    /\ UNCHANGED syncVars

Return ==
    /\ fn # "idle"
    /\ fn' = "idle"
    /\ arg' = <<>>
    /\ ret' = <<>>
    /\ sent' = <<>>
    /\ UNCHANGED syncVars

InitFn ==
    /\ InitSync
    /\ items = ENTITIES
    /\ faults = 0
    /\ api = "distinct"
    /\ InitFnIdle

NextFn ==
    \/ ApplyDedupe
    \/ ApplyUpsert
    \/ ApplyTransform
    \/ ApplyClassify
    \/ ApplyInferIntentBucket
    \/ ApplyMain
    \/ ApplyEnrich
    \/ ApplyGeoTargetDetails
    \/ Return

SpecFn == InitFn /\ [][NextFn]_vars

\* The segmentation key of a report row: the fields by which the provider
\* reports one row per combination (the resource of the FROM clause and the
\* segments.* fields of the entity's query, lines 263-431).
ProviderKey(name, r) ==
    CASE name = "campaigns" -> <<r.campaign_id, r.date>>
      [] name = "keywords" -> <<r.campaign_id, r.ad_group_id, r.criterion_id, r.date>>
      [] name = "search_terms" ->
            <<r.campaign_id, r.ad_group_id, r.search_term, r.match_type, r.date>>
      [] name = "ads" -> <<r.campaign_id, r.ad_group_id, r.ad_id, r.date>>
      [] name = "geo_performance" ->
            <<r.campaign_id, r.geo_target_region, r.country_criterion_id,
              r.location_type, r.date>>
      [] name = "device_performance" -> <<r.campaign_id, r.device, r.date>>
      [] name = "hourly_performance" ->
            <<r.campaign_id, r.hour, r.day_of_week, r.date>>
      [] name = "auction_insights" -> <<r.campaign_id, r.date>>
      [] name = "quality_score_snapshots" ->
            <<r.campaign_id, r.ad_group_id, r.criterion_id, r.date>>
      [] name = "conversion_actions" ->
            <<r.campaign_id, r.conversion_action_name,
              r.conversion_action_category, r.date>>
      [] name = "landing_pages" -> <<r.url, r.date>>

-----------------------------------------------------------------------------
(* Properties                                                              *)

Keys(records) == {Key(records[i]) : i \in 1..Len(records)}

RECURSIVE SumSeq(_)
SumSeq(s) == IF s = <<>> THEN 0 ELSE Head(s) + SumSeq(Tail(s))

\* The sum of f over the entities of S.
SumOver(S, f(_)) ==
    SumSeq([i \in 1..Len(ENTITIES) |-> IF ENTITIES[i] \in S THEN f(ENTITIES[i]) ELSE 0])

\* The entities queried by the current run, in the order of the queries.
Queried ==
    LET IsQuery(c) == c.op = "query"
        q == SelectSeq(calls, IsQuery)
    IN  [i \in 1..Len(q) |-> q[i].entity]

\* The entity-level calls of the current run that raised, in order.
RaisedCalls ==
    LET IsRaise(c) == c.raised /\ c.op \notin {"insert", "update"}
    IN  SelectSeq(calls, IsRaise)

\* The for loop has run to its end.
LoopOver == idx > Len(ENTITIES)

\* The sync_log row of the current run (defined when sync_id is not None).
RunRecord == sync_log[CHOOSE i \in 1..Len(sync_log) : sync_log[i].id = sync_id[1]]

CallPositions(op) == {i \in 1..Len(calls) : calls[i].op = op}

\* C1: whatever entities raise in query, transform, geo enrichment or upsert,
\* the entities are attempted once each in catalog order, none is skipped
\* after a failure (once the loop is left all of them were attempted), and
\* the error list holds exactly one string per failing entity, in order,
\* each prefixed with the name of the entity that failed.
C1_EveryEntityAttempted ==
    /\ Queried = SubSeq(ENTITIES, 1, Len(Queried))
    /\ pc = "loop" => Len(Queried) = idx - 1
    /\ pc \in {"finalise", "exit", "done"} => Queried = ENTITIES
    /\ Len(errors) = Len(RaisedCalls)
    /\ Len(errors) = Cardinality(FailedEntities)
    /\ \A p \in 1..Len(errors) :
          \E exc \in ExcTexts : errors[p] = RaisedCalls[p].entity \o ": " \o exc

C1_Witness ==
    /\ pc = "done"
    /\ Len(errors) = 2
    /\ "campaigns" \in FailedEntities
    /\ "geo_performance" \in FailedEntities
    /\ Queried = ENTITIES
    /\ total_records > 0

\* C2: when the insert of the run record fails (it raises, or it returns no
\* row), the run is not aborted, every entity is processed, no update of the
\* run record is attempted and the exit code follows the entity failures.
C2_InsertFailureTolerated ==
    (\E i \in CallPositions("insert") : calls[i].raised \/ calls[i].n = 0)
        => /\ pc # "crashed"
           /\ CallPositions("update") = {}
           /\ exit_code # None =>
                 /\ Queried = ENTITIES
                 /\ exit_code = Some(IF FailedEntities # {} THEN 1 ELSE 0)

\* C3: once a run that captured its run-record identifier has processed all
\* entities and ended, the record's status is success iff no entity failed
\* and error otherwise, records_synced is the total, error_message is the
\* joined error strings (None when there are none), and the status is not
\* running.
C3_RunRecordFinalised ==
    (sync_id # None /\ LoopOver /\ exit_code # None)
        => /\ RunRecord.status = (IF FailedEntities = {} THEN "success" ELSE "error")
           /\ RunRecord.status # "running"
           /\ RunRecord.records_synced = total_records
           /\ RunRecord.error_message = ErrorMessage(errors)

\* C4: the exit code is 1 iff at least one entity failed and 0 otherwise, and
\* a non-zero exit is taken only after every entity was processed and the
\* run record finalised.
C4_ExitCodeIffEntityFailed ==
    exit_code # None
        => /\ exit_code \in {Some(0), Some(1)}
           /\ exit_code = Some(1) <=> FailedEntities # {}
           /\ exit_code = Some(1) =>
                 /\ Queried = ENTITIES
                 /\ sync_id # None => \E i \in CallPositions("update") : ~calls[i].raised

\* The number of distinct (id, date) keys among the records of an entity.
DistinctKeys(name) == Cardinality(Keys(Records(name)))

\* The number of records the store calls of an entity carried.
UpsertedCount(name) ==
    SumSeq([i \in 1..Len(calls) |->
                IF calls[i].op = "upsert" /\ calls[i].entity = name /\ ~calls[i].raised
                THEN calls[i].n ELSE 0])

\* C5: the total record count is the sum, over the entities that completed
\* without an exception, of the records the entity upserted, which is its
\* number of records after deduplication; a failed entity adds nothing; and
\* the total never decreases during a run.
C5_TotalIsSumOfCompleted ==
    /\ [](/\ total_records = SumOver(CompletedEntities, DistinctKeys)
          /\ total_records = SumOver(CompletedEntities, UpsertedCount))
    /\ [][total_records' >= total_records]_vars

C5_Witness ==
    /\ pc = "done"
    /\ api = "colliding"
    /\ Cardinality(FailedEntities) = 2
    /\ total_records = 18

\* C6: the run record is inserted by the first call of the run, once, with
\* status running, before any entity is queried; it is updated at most once,
\* by a call that follows the last entity's calls; a row changes only from
\* running to success or error, and a row in success or error is not
\* written again.
C6_RunRecordLifecycle ==
    /\ [](/\ pc # "start" => CallPositions("insert") = {1}
          /\ pc = "start" => calls = <<>>
          /\ Cardinality(CallPositions("update")) <= 1
          /\ \A u \in CallPositions("update") : u = Len(calls) /\ Queried = ENTITIES
          /\ pc \in {"loop", "finalise"} /\ sync_id # None => RunRecord.status = "running")
    /\ [][/\ Len(sync_log') >= Len(sync_log)
          /\ Len(sync_log') > Len(sync_log) =>
                /\ pc = "start"
                /\ Len(sync_log') = Len(sync_log) + 1
                /\ sync_log'[Len(sync_log')].status = "running"
          /\ \A i \in 1..Len(sync_log) :
                sync_log'[i] # sync_log[i] =>
                    /\ pc = "finalise"
                    /\ sync_log[i].status = "running"
                    /\ sync_log'[i].status \in {"success", "error"}]_vars

C6_Witness ==
    /\ pc = "done"
    /\ sync_id # None
    /\ errors # <<>>
    /\ RunRecord.status = "error"
    /\ CallPositions("update") = {Len(calls)}

\* C7: _dedupe returns one record per distinct (id, date) of its input, the
\* occurrence that is last in input order, and the records it keeps are in
\* their input order.
C7_DedupeKeepsLast ==
    fn = "_dedupe" =>
        LET LastAt(k) == CHOOSE i \in 1..Len(arg) :
                            /\ Key(arg[i]) = k
                            /\ \A j \in (i + 1)..Len(arg) : Key(arg[j]) # k
        IN  /\ Len(ret) = Cardinality(Keys(arg))
            /\ Keys(ret) = Keys(arg)
            /\ \A p \in 1..Len(ret) : ret[p] = arg[LastAt(Key(ret[p]))]
            /\ \A p, q \in 1..Len(ret) :
                  p < q => LastAt(Key(ret[p])) < LastAt(Key(ret[q]))

C7_Witness ==
    /\ fn = "_dedupe"
    /\ Len(arg) = 3
    /\ Key(arg[1]) = Key(arg[3])
    /\ arg[1] # arg[3]
    /\ Key(arg[2]) # Key(arg[1])
    /\ ret = <<arg[2], arg[3]>>

\* C8: for d distinct (id, date) keys _upsert issues ceil(d / 500) store
\* calls, each with 1 to 500 records and conflict key (id, date); no key
\* occurs twice within a call or in two calls; the calls concatenated are
\* the deduplicated list; the return value is d; an empty list gives no call
\* and 0.
C8_UpsertBatches ==
    fn = "_upsert" =>
        LET d == Cardinality(Keys(arg))
            all == FlatConcat([b \in 1..Len(sent) |-> sent[b].chunk])
        IN  /\ Len(sent) * 500 >= d
            /\ (Len(sent) - 1) * 500 < d
            /\ \A b \in 1..Len(sent) :
                  /\ Len(sent[b].chunk) \in 1..500
                  /\ sent[b].on_conflict = "id,date"
                  /\ sent[b].op = "upsert"
            /\ Cardinality(Keys(all)) = Len(all)
            /\ all = Dedupe(arg)
            /\ ret = d
            /\ arg = <<>> => sent = <<>> /\ ret = 0

C8_Witness ==
    /\ fn = "_upsert"
    /\ Len(arg) = 1001
    /\ Len(sent) = 3
    /\ Len(sent[1].chunk) = 500
    /\ Len(sent[3].chunk) = 1
    /\ ret = 1001

\* C9: a second sync against the same API responses leaves the table of
\* every entity that an earlier run upserted completely exactly as it was:
\* no (id, date) row is added and no stored value changes.
C9_ResyncIdempotent ==
    [][\A name \in synced : tables'[name] = tables[name]]_vars

C9_Witness ==
    /\ run = "second"
    /\ pc = "done"
    /\ synced = Range(ENTITIES)
    /\ CompletedEntities = Range(ENTITIES)
    /\ api = "colliding"
    /\ \A name \in Range(ENTITIES) : tables[name] = Range(Dedupe(Records(name)))
    /\ Cardinality(tables["device_performance"]) = 2
    /\ Len(Records("device_performance")) = 3

\* C10: the output of a transformer holds no two records with the same
\* (id, date) whenever its input rows are pairwise distinct in the key the
\* provider reports them by.
C10_TransformKeysUnique ==
    fn = "transform" =>
        ((\A i, j \in 1..Len(arg.rows) :
              i # j => ProviderKey(arg.entity, arg.rows[i]) # ProviderKey(arg.entity, arg.rows[j]))
            => Cardinality(Keys(ret)) = Len(ret))

\* C11: for conversions >= 0, _classify_search_term labels a row winner iff
\* conversions >= 1 and (median_cpa = 0 or 0 < cpa <= 0.8 * median_cpa),
\* loser iff conversions = 0 and spend >= 100, and neutral in every other
\* case, which includes every row with 0 < conversions < 1.
C11_ClassifyLabels ==
    fn = "_classify_search_term" =>
        LET label == ret[1]
            Winner == /\ RatLe(Float(1), arg.conversions)
                      /\ \/ arg.median_cpa.n = 0
                         \/ /\ arg.cpa.n > 0
                            /\ 10 * arg.cpa.n * arg.median_cpa.d
                                    <= 8 * arg.median_cpa.n * arg.cpa.d
            Loser == arg.conversions.n = 0 /\ arg.spend.n >= 100 * arg.spend.d
        IN  /\ label = "winner" <=> Winner
            /\ label = "loser" <=> Loser
            /\ label = "neutral" <=> ~Winner /\ ~Loser
            /\ arg.conversions.n > 0 /\ arg.conversions.n < arg.conversions.d
                    => label = "neutral"

C11_Witness ==
    /\ fn = "_classify_search_term"
    /\ arg.conversions = Rat(1, 2)
    /\ arg.spend = Float(250)
    /\ ret[1] = "neutral"

\* C12: infer_intent_bucket returns Brand iff the lower-cased text contains
\* a brand-indicator keyword and no non-brand keyword; otherwise Group if it
\* contains a group/employer keyword; otherwise Nonbrand Lead Gen if it
\* contains a lead-gen keyword; otherwise Education/Midfunnel.
C12_IntentBucketPrecedence ==
    fn = "infer_intent_bucket" =>
        LET t == Lower(arg)
            Has(words) == \E w \in words : Contains(t, w)
            brand == Has({KwGoogleBrand, KwBrandInfix, KwBranded})
            nonbrand == Has(NONBRAND_KEYWORDS)
        IN  ret = IF brand /\ ~nonbrand THEN "Brand"
                  ELSE IF Has(GROUP_KEYWORDS) THEN "Group"
                  ELSE IF Has(LEADGEN_KEYWORDS) THEN "Nonbrand Lead Gen"
                  ELSE "Education/Midfunnel"

\* C13: in every record a transformer emits, cpa is 0 when conversions is
\* 0, roas is 0 when spend is 0 and the conversion rate is 0 when clicks is
\* 0; every ratio is a defined, finite number for non-negative metrics.
C13_RatiosZeroOnZeroDenominator ==
    fn = "transform" =>
        \A i \in 1..Len(ret) :
            LET rec == ret[i]
                Has(f) == f \in DOMAIN rec
                Defined(x) == x.d > 0
                clicks == IF Has("clicks") THEN rec.clicks ELSE rec.sessions
            IN  /\ Has("cpa") =>
                    /\ Defined(rec.cpa)
                    /\ rec.conversions.n = 0 => rec.cpa.n = 0
                /\ Has("roas") =>
                    /\ Defined(rec.roas)
                    /\ rec.spend.n = 0 => rec.roas.n = 0
                /\ Has("conv_rate") =>
                    /\ Defined(rec.conv_rate)
                    /\ clicks = 0 => rec.conv_rate.n = 0
                /\ Has("conversion_rate") =>
                    /\ Defined(rec.conversion_rate)
                    /\ clicks = 0 => rec.conversion_rate.n = 0

C13_Witness ==
    /\ fn = "transform"
    /\ arg.entity = "campaigns"
    /\ Len(ret) = 1
    /\ ret[1].conversions = Zero /\ ret[1].spend # Zero /\ ret[1].cpa = Zero
    /\ ret[1].clicks = 0 /\ ret[1].conv_rate = Zero

\* C14: the effective range is (d, d) for --date d; (f, t) for --date-from f
\* --date-to t; (f, f) for --date-from f alone; (y, y), y the previous UTC
\* calendar day, with no arguments.  The predicate is the equality form
\* when from = to and the BETWEEN form otherwise, and every entity's query
\* of the run carries that same predicate.
C14_EffectiveDateRange ==
    fn = "main" =>
        LET a == arg.args
            Given(o) == o # None /\ o[1] \in {Day1, Day2}
            Absent(o) == o = None
            PrevDay ==
                CASE <<arg.now.year, arg.now.month, arg.now.day>> = <<2026, 2, 19>> -> "2026-02-18"
                  [] <<arg.now.year, arg.now.month, arg.now.day>> = <<2026, 3, 1>> -> "2026-02-28"
                  [] <<arg.now.year, arg.now.month, arg.now.day>> = <<2024, 3, 1>> -> "2024-02-29"
                  [] <<arg.now.year, arg.now.month, arg.now.day>> = <<2026, 1, 1>> -> "2025-12-31"
                  [] <<arg.now.year, arg.now.month, arg.now.day>> = <<2026, 5, 1>> -> "2026-04-30"
            range == <<ret.d_from, ret.d_to>>
        IN  /\ Given(a.date) => range = <<a.date[1], a.date[1]>>
            /\ Absent(a.date) /\ Given(a.date_from) /\ Given(a.date_to)
                    => range = <<a.date_from[1], a.date_to[1]>>
            /\ Absent(a.date) /\ Given(a.date_from) /\ Absent(a.date_to)
                    => range = <<a.date_from[1], a.date_from[1]>>
            /\ Absent(a.date) /\ Absent(a.date_from) /\ Absent(a.date_to)
                    => range = <<PrevDay, PrevDay>>
            /\ ret.date_cond =
                    IF ret.d_from = ret.d_to
                    THEN "segments.date = '" \o ret.d_from \o "'"
                    ELSE "segments.date BETWEEN '" \o ret.d_from
                            \o "' AND '" \o ret.d_to \o "'"
            /\ Len(ret.queries) = Len(ENTITIES)
            /\ \A i \in 1..Len(ENTITIES) :
                    /\ ret.queries[i].template = ENTITIES[i]
                    /\ ret.queries[i].date_condition = ret.date_cond

C14_Witness ==
    /\ fn = "main"
    /\ arg.args = [date |-> None, date_from |-> Some(Day1), date_to |-> None]
    /\ ret.date_cond = "segments.date = '2026-02-17'"
    /\ ret.queries[Len(ENTITIES)].date_condition = "segments.date = '2026-02-17'"

\* C15: a record whose region identifier the lookup did not resolve (no row
\* returned for it, or the identifier is not numeric) has every field,
\* state, state_code and dma included, unchanged by _enrich_geo_records;
\* the records returned are as many as, and in the order of, those passed.
C15_UnresolvedGeoUnchanged ==
    fn = "_enrich_geo_records" =>
        /\ Len(ret) = Len(arg)
        /\ \A i \in 1..Len(arg) :
              /\ ret[i].id = arg[i].id
              /\ arg[i].state_code \notin DOMAIN GeoConstants => ret[i] = arg[i]

C15_Witness ==
    /\ fn = "_enrich_geo_records"
    /\ Len(arg) = 2
    /\ arg[1].state_code = "21135" /\ ret[1] = arg[1]
    /\ arg[2].state_code = "21137" /\ ret[2].state_code = "NY"
    /\ sent = <<<<"21135", "21137">>>>

\* The number of store calls the current run issued for an entity.
UpsertCallCount(name) ==
    Cardinality({i \in 1..Len(calls) : calls[i].op = "upsert" /\ calls[i].entity = name})

\* The rows an entity's table holds after a run from an empty store, given
\* only the entity's response and where, if anywhere, its processing raised:
\* all its deduplicated records when nothing raised, those of the batches
\* before the raising one when a store call raised, none otherwise.
RowsByOutcome(name) ==
    LET recs == Dedupe(Records(name))
        stored == IF name \notin FailedEntities THEN Len(recs)
                  ELSE IF UpsertCallCount(name) > 0
                       THEN BATCH_SIZE * (UpsertCallCount(name) - 1)
                       ELSE 0
    IN  {recs[i] : i \in 1..stored}

\* C16: with the same responses and the same failures, the final table
\* contents, the total record count, the final run status and the exit code
\* are those fixed by each entity's own response and failure, whatever the
\* order in which the entities are processed; the error strings are the
\* same up to their order.
C16_OrderIndependent ==
    /\ LoopOver =>
        /\ \A name \in Range(ENTITIES) : tables[name] = RowsByOutcome(name)
        /\ total_records =
                SumSeq([i \in 1..Len(ENTITIES) |->
                            IF ENTITIES[i] \in FailedEntities THEN 0
                            ELSE Len(Dedupe(Records(ENTITIES[i])))])
        /\ Range(errors) =
                {c.entity \o ": " \o
                    (CASE c.op = "query" -> ExcQuery
                       [] c.op = "transform" -> ExcTransform
                       [] c.op = "geo_lookup" -> ExcGeo
                       [] c.op = "upsert" -> ExcUpsert) :
                 c \in Range(RaisedCalls)}
        /\ Len(errors) = Cardinality(FailedEntities)
        /\ pc = "done" =>
                exit_code = Some(IF FailedEntities = {} THEN 0 ELSE 1)
        /\ pc \in {"exit", "done"} /\ sync_id # None =>
                /\ RunRecord.status = IF FailedEntities = {} THEN "success" ELSE "error"
                /\ RunRecord.records_synced = total_records
    /\ pc = "crashed" /\ ~LoopOver =>
        /\ \A name \in Range(ENTITIES) : tables[name] = {}
        /\ total_records = 0
        /\ exit_code = Some(1)

C16_Witness ==
    /\ pc = "done"
    /\ items = Reverse(ENTITIES)
    /\ api = "colliding"
    /\ FailedEntities = {"keywords"}
    /\ tables["campaigns"] # {}
    /\ exit_code = Some(1)

\* C17: when the k-th batch upsert of an entity raises, no later batch of
\* the entity is issued and no batch is sent again; the entity has exactly
\* one error string and adds nothing to the total; the k-1 batches written
\* before stay in the store; and the run goes on with the next entity.
C17_BatchFailureStopsEntity ==
    /\ [](\A p \in 1..Len(calls) :
            calls[p].op = "upsert" /\ calls[p].raised =>
                LET e == calls[p].entity
                    k == UpsertCallCount(e)
                    recs == Dedupe(Records(e))
                    pos == CHOOSE j \in 1..Len(ENTITIES) : ENTITIES[j] = e
                IN  /\ \A q \in (p + 1)..Len(calls) : calls[q].entity # e
                    /\ \A j \in 1..k :
                          /\ calls[p - k + j].op = "upsert"
                          /\ calls[p - k + j].entity = e
                          /\ calls[p - k + j].raised = (j = k)
                          /\ j < k => calls[p - k + j].n = BATCH_SIZE
                    /\ BATCH_SIZE * (k - 1) < Len(recs)
                    /\ Cardinality({i \in 1..Len(errors) :
                            \E x \in ExcTexts : errors[i] = e \o ": " \o x}) = 1
                    /\ \E i \in 1..Len(errors) : errors[i] = e \o ": " \o ExcUpsert
                    /\ e \notin CompletedEntities
                    /\ tables[e] = {recs[i] : i \in 1..(BATCH_SIZE * (k - 1))}
                    /\ p < Len(calls) =>
                          \/ calls[p + 1].op = "update" /\ pos = Len(ENTITIES)
                          \/ /\ calls[p + 1].op = "query"
                             /\ pos < Len(ENTITIES)
                             /\ calls[p + 1].entity = ENTITIES[pos + 1]
                    /\ pos < Len(ENTITIES) /\ pc = "done" =>
                          \E q \in (p + 1)..Len(calls) :
                              calls[q].op = "query" /\ calls[q].entity = ENTITIES[pos + 1])
    /\ [][(/\ Len(calls') > Len(calls)
            /\ calls'[Len(calls')].op = "upsert"
            /\ calls'[Len(calls')].raised)
              => /\ total_records' = total_records
                 /\ Len(errors') = Len(errors) + 1
                 /\ idx' = idx + 1
                 /\ pc' = IF idx = Len(ENTITIES) THEN "finalise" ELSE "loop"]_vars

C17_Witness ==
    /\ pc = "done"
    /\ api = "bulk"
    /\ UpsertCallCount("keywords") = 2
    /\ "keywords" \in FailedEntities
    /\ Cardinality(tables["keywords"]) = BATCH_SIZE
    /\ tables["landing_pages"] # {}
    /\ total_records = 10

\* C18: for n distinct numeric region identifiers collected from the geo
\* records, resolution issues ceil(n / 200) lookup queries (none for n = 0),
\* each naming at most 200 identifiers, every identifier in exactly one
\* query; the mapping is the union of the queries' results, so that every
\* identifier a query returned is resolved.
C18_GeoLookupChunks ==
    fn = "_geo_target_details" =>
        LET numeric == {arg.records[i].state_code : i \in 1..Len(arg.records)}
                            \ {"", "unknown"}
            n == Cardinality(numeric)
        IN  /\ Len(sent) = (n + 199) \div 200
            /\ \A p \in 1..Len(sent) : Len(sent[p]) >= 1 /\ Len(sent[p]) <= 200
            /\ \A c \in numeric :
                  Cardinality({<<p, j>> \in (1..Len(sent)) \X (1..200) :
                                  j <= Len(sent[p]) /\ sent[p][j] = c}) = 1
            /\ \A p \in 1..Len(sent) : \A j \in 1..Len(sent[p]) : sent[p][j] \in numeric
            /\ DOMAIN ret = numeric \cap arg.constants
            /\ \A c \in DOMAIN ret : ret[c].name = "Region " \o c

C18_Witness ==
    /\ fn = "_geo_target_details"
    /\ Len(arg.criterion_ids) = 450
    /\ Len(arg.records) = 453
    /\ Len(sent) = 3
    /\ Len(sent[1]) = 200 /\ Len(sent[2]) = 200 /\ Len(sent[3]) = 50
    /\ "30001" \in DOMAIN ret /\ "30449" \in DOMAIN ret

\* C19: every record of one search-terms batch is classified against one
\* median_cpa, the median of cpa over all rows of the batch with
\* conversions > 0 and cpa > 0, or 0 when there is no such row; the label of
\* a row does not depend on its position in the batch.
C19_OneMedianPerBatch ==
    fn = "transform" /\ arg.entity = "search_terms" =>
        LET rows == arg.rows
            Spend(r) == Rat(r.cost_micros, 1000000)
            Cpa(r) == IF r.conversions.n = 0 THEN Zero
                      ELSE Rat(r.cost_micros * r.conversions.d,
                               1000000 * r.conversions.n)
            S == {i \in 1..Len(rows) :
                    rows[i].conversions.n > 0 /\ Cpa(rows[i]).n > 0}
            n == Cardinality(S)
            Kth(k) ==
                Cpa(rows[CHOOSE i \in S :
                    /\ Cardinality({j \in S : RatLt(Cpa(rows[j]), Cpa(rows[i]))}) < k
                    /\ Cardinality({j \in S : RatLe(Cpa(rows[j]), Cpa(rows[i]))}) >= k])
            median == IF n = 0 THEN Zero
                      ELSE IF n % 2 = 1 THEN Kth((n + 1) \div 2)
                      ELSE LET lo == Kth(n \div 2)
                               hi == Kth(n \div 2 + 1)
                           IN  Rat(lo.n * hi.d + hi.n * lo.d, 2 * lo.d * hi.d)
            Label(r) ==
                IF r.conversions.n >= r.conversions.d
                THEN IF \/ median.n = 0
                        \/ /\ Cpa(r).n > 0
                           /\ 10 * Cpa(r).n * median.d <= 8 * median.n * Cpa(r).d
                     THEN "winner" ELSE "neutral"
                ELSE IF r.conversions.n = 0 /\ r.cost_micros >= 100 * 1000000
                     THEN "loser" ELSE "neutral"
            HasTerm(r) == r.search_term # ""
            emitted == SelectSeq(rows, HasTerm)
            reversed == XfSearchTerms([i \in 1..Len(rows) |-> rows[Len(rows) + 1 - i]])
        IN  /\ Len(ret) = Len(emitted)
            /\ \A j \in 1..Len(ret) :
                  /\ ret[j].label = Label(emitted[j])
                  /\ reversed[Len(ret) + 1 - j].label = ret[j].label

C19_Witness ==
    /\ fn = "transform" /\ arg.entity = "search_terms"
    /\ Len(arg.rows) = 3 /\ Len(ret) = 2
    /\ arg.rows[1].search_term = ""
    /\ ret[1].cpa = Float(80) /\ ret[1].label = "winner"
    /\ ret[2].cpa = Float(200) /\ ret[2].label = "neutral"

====
